---- MODULE Spec2Model ----
(***************************************************************************)
(* DawnCaps (src/gpu/graphite/dawn/DawnCaps.cpp): the capability tables of *)
(* the Dawn backend and the queries and key builders that read them.       *)
(*                                                                         *)
(* The model is the native build (__EMSCRIPTEN__ undefined, as for the     *)
(* SK_BUILD_FOR_WIN configuration of include/config/SkUserConfig.h).  The   *)
(* build is either a debug build, in which SkASSERT and SkDEBUGFAILF abort, *)
(* or a release build, in which they compile to nothing.                    *)
(*                                                                         *)
(* Flag words whose bit values live in headers (FormatInfo::fFlags,        *)
(* ColorTypeInfo::fFlags, wgpu::TextureUsage in the descriptor factories)  *)
(* are sets of flag names: | is \cup, & is \cap, ~ is set difference.      *)
(* The words the key builders pack are 32 and 64 bit machine words, kept   *)
(* as sequences of 16-bit limbs, least significant first.                  *)
(***************************************************************************)
EXTENDS Integers, Sequences, FiniteSets, TLC

VARIABLES
    debugBuild,                         \* SK_DEBUG: SkASSERT / SkDEBUGFAILF abort
    features,                           \* wgpu::Device::HasFeature
    fFormatTable,                       \* FormatInfo fFormatTable[kFormatCnt]
    fColorTypeToFormatTable,            \* wgpu::TextureFormat [kSkColorTypeCnt]
    fSupportedTransientAttachmentUsage, \* wgpu::TextureUsage, None or TransientAttachment
    fSupportedResolveTextureLoadOp,     \* std::optional<wgpu::LoadOp>
    fDefaultMSAASamples,                \* Caps::fDefaultMSAASamples
    fMaxTextureSize,                    \* Caps::fMaxTextureSize
    call,                               \* the last query made on the object
    result,                             \* and what it returned
    kGraphicsPipelineDomain,            \* function-local static of makeGraphicsPipelineKey
    kComputePipelineDomain,             \* function-local static of makeComputePipelineKey
    kNum32DataCnt,                      \* function-local static of buildKeyForTexture
    nextDomain,                         \* the counter behind UniqueKey::GenerateDomain
    tpc,                                \* per thread: where it is in its call
    tcall,                              \* per thread: the call it is making
    tlocal,                             \* per thread: the locals of the call
    tresult                             \* per thread: what the call returned

caps == <<debugBuild, features, fFormatTable, fColorTypeToFormatTable,
          fSupportedTransientAttachmentUsage, fSupportedResolveTextureLoadOp,
          fDefaultMSAASamples, fMaxTextureSize>>
statics == <<kGraphicsPipelineDomain, kComputePipelineDomain, kNum32DataCnt, nextDomain>>
threads == <<tpc, tcall, tlocal, tresult>>
vars == <<caps, call, result, statics, threads>>

(***************************************************************************)
(* Bounds of the model.                                                    *)
(***************************************************************************)
NumThreads == 2
MaxDomains == 4

Threads == 1..NumThreads

(***************************************************************************)
(* The enumerations.                                                       *)
(***************************************************************************)
\* The entries of kFormats, in the order of the initializer.
kFormatsList ==
    << "RGBA8Unorm", "R8Unorm", "R16Unorm", "BGRA8Unorm", "RGBA16Float",
       "R16Float", "RG8Unorm", "RG16Unorm", "RGB10A2Unorm", "RG16Float",
       "Stencil8", "Depth16Unorm", "Depth32Float", "Depth24PlusStencil8",
       "BC1RGBAUnorm", "ETC2RGB8Unorm",
       "External",
       "Undefined" >>

\* std::size(kFormats), which the static_assert equates with kFormatCnt.
kFormatCnt == Len(kFormatsList)

\* kFormats[i], 0-based as in the source.
kFormats == [i \in 0..(kFormatCnt - 1) |-> kFormatsList[i + 1]]

MultiplanarFormats ==
    {"R8BG8Biplanar420Unorm", "R10X6BG10X6Biplanar420Unorm", "R8BG8A8Triplanar420Unorm"}

\* wgpu::TextureFormat values the queries are asked about: the listed ones,
\* the multiplanar ones and one more that kFormats does not list.
TextureFormats ==
    {kFormatsList[i] : i \in 1..Len(kFormatsList)} \cup MultiplanarFormats \cup {"RGBA8Snorm"}

\* The color types initFormatTable mentions.
MappedColorTypes ==
    {"kAlpha_8", "kRGBA_8888", "kRGB_888x", "kBGRA_8888", "kGray_8", "kR8_unorm",
     "kRGBA_F16", "kA16_float", "kR8G8_unorm", "kRGBA_1010102", "kR16G16_float",
     "kA16_unorm", "kR16G16_unorm"}

\* SkColorType values the queries are asked about.
ColorTypes == MappedColorTypes \cup {"kUnknown", "kRGBA_F32"}

Features ==
    {"R8UnormStorage", "Unorm16TextureFormats", "TextureCompressionETC2",
     "TextureCompressionBC", "TransientAttachments", "DawnLoadResolveTexture"}

\* FormatInfo flags.
kTexturable_Flag == {"Texturable"}
kRenderable_Flag == {"Renderable"}
kMSAA_Flag       == {"MSAA"}
kStorage_Flag    == {"Storage"}
kAllFlags == kTexturable_Flag \cup kRenderable_Flag \cup kMSAA_Flag
                 \cup {"Resolve"} \cup kStorage_Flag

\* ColorTypeInfo flags.
kUploadData_Flag   == {"UploadData"}
kCTRenderable_Flag == {"CTRenderable"}

\* wgpu::TextureUsage bits.
TextureBinding      == {"TextureBinding"}
CopyDst             == {"CopyDst"}
CopySrc             == {"CopySrc"}
RenderAttachment    == {"RenderAttachment"}
StorageBinding      == {"StorageBinding"}
TransientAttachment == {"TransientAttachment"}
UsageNone           == {}

(***************************************************************************)
(* Records.                                                                *)
(***************************************************************************)
\* A default-constructed FormatInfo.
DefaultFormatInfo == [fFlags |-> {}, fColorTypeInfos |-> << >>]

\* A ColorTypeInfo as initFormatTable fills it; the swizzles default to RGBA.
ColorTypeInfo(ct, flags, rd, wr) ==
    [fColorType |-> ct, fFlags |-> flags, fReadSwizzle |-> rd, fWriteSwizzle |-> wr]

\* info.fColorTypeInfoCount
fColorTypeInfoCount(info) == Len(info.fColorTypeInfos)

\* A default-constructed TextureInfo: not valid.
NullTextureInfo ==
    [valid |-> FALSE, fSampleCount |-> 1, fMipmapped |-> FALSE, fFormat |-> "Undefined",
     fViewFormat |-> "Undefined", fUsage |-> UsageNone, fAspect |-> "All"]

\* TextureInfo(const DawnTextureInfo&): a valid TextureInfo holding the fields.
DawnTextureInfo(samples, mipmapped, format, viewFormat, usage, aspect) ==
    [valid |-> TRUE, fSampleCount |-> samples, fMipmapped |-> mipmapped, fFormat |-> format,
     fViewFormat |-> viewFormat, fUsage |-> usage, fAspect |-> aspect]

\* DawnTextureSpec::getViewFormat
getViewFormat(spec) ==
    IF spec.fViewFormat # "Undefined" THEN spec.fViewFormat ELSE spec.fFormat

\* What a call comes to: it returns a value, or the build aborts in it.
Returns(v) == [aborted |-> FALSE, value |-> v]
Aborts == [aborted |-> TRUE]

(***************************************************************************)
(* The format table.                                                       *)
(***************************************************************************)
\* The scan without the test for the Undefined entry.
RECURSIVE ScanFormatsNoSentinel(_, _)
ScanFormatsNoSentinel(format, i) ==
    IF i >= kFormatCnt THEN [outcome |-> "unreachable", index |-> i]
    ELSE IF format = kFormats[i] THEN [outcome |-> "found", index |-> i]
    ELSE ScanFormatsNoSentinel(format, i + 1)

\* The loop of GetFormatIndex from index i on.  "found": format == kFormats[i];
\* "unsupported": the scan met the Undefined entry first, where SkDEBUGFAILF
\* stands; "unreachable": the loop ran off the array, onto SkUNREACHABLE.
RECURSIVE ScanFormats(_, _)
ScanFormats(format, i) ==
    IF i >= kFormatCnt THEN [outcome |-> "unreachable", index |-> i]
    ELSE IF format = kFormats[i] THEN [outcome |-> "found", index |-> i]
    ELSE IF kFormats[i] = "Undefined" THEN [outcome |-> "unsupported", index |-> i]
    ELSE ScanFormats(format, i + 1)

GetFormatIndex(format) == ScanFormats(format, 0)

\* Whether a call of GetFormatIndex(format) ends the program instead of
\* returning: SkDEBUGFAILF in a debug build, or the unreachable end.
FormatIndexFails(format) ==
    LET r == GetFormatIndex(format)
    IN  \/ r.outcome = "unreachable"
        \/ r.outcome = "unsupported" /\ debugBuild

\* fFormatTable[GetFormatIndex(format)] of a given table.
FormatInfoIn(table, format) == table[GetFormatIndex(format).index]

\* DawnCaps::getFormatInfo
getFormatInfo(format) == FormatInfoIn(fFormatTable, format)

\* The blocks of initFormatTable, one per format: what the block leaves in
\* the format's entry.  device is the set of features the device has.
RGBA8UnormInfo ==
    [fFlags |-> kAllFlags,
     fColorTypeInfos |->
        << ColorTypeInfo("kRGBA_8888", kUploadData_Flag \cup kCTRenderable_Flag, "rgba", "rgba"),
           ColorTypeInfo("kRGB_888x", kUploadData_Flag, "rgb1", "rgba") >>]

\* The R8Unorm block that keeps the storage flag whatever the device has.
R8UnormInfoAlwaysStorage(device) ==
    [fFlags |-> kAllFlags,
     fColorTypeInfos |->
        << ColorTypeInfo("kR8_unorm", kUploadData_Flag \cup kCTRenderable_Flag, "rgba", "rgba"),
           ColorTypeInfo("kAlpha_8", kUploadData_Flag \cup kCTRenderable_Flag, "000r", "a000"),
           ColorTypeInfo("kGray_8", kUploadData_Flag, "rrr1", "rgba") >>]

R8UnormInfo(device) ==
    [fFlags |-> IF "R8UnormStorage" \notin device THEN kAllFlags \ kStorage_Flag ELSE kAllFlags,
     fColorTypeInfos |->
        << ColorTypeInfo("kR8_unorm", kUploadData_Flag \cup kCTRenderable_Flag, "rgba", "rgba"),
           ColorTypeInfo("kAlpha_8", kUploadData_Flag \cup kCTRenderable_Flag, "000r", "a000"),
           ColorTypeInfo("kGray_8", kUploadData_Flag, "rrr1", "rgba") >>]

\* The R16Unorm block with the renderable flag cleared instead of the
\* storage flag.
R16UnormInfoNotRenderable(device) ==
    IF "Unorm16TextureFormats" \in device
    THEN [fFlags |-> kAllFlags \ kRenderable_Flag,
          fColorTypeInfos |->
             << ColorTypeInfo("kA16_unorm", kUploadData_Flag \cup kCTRenderable_Flag,
                              "000r", "a000") >>]
    ELSE DefaultFormatInfo

R16UnormInfo(device) ==
    IF "Unorm16TextureFormats" \in device
    THEN [fFlags |-> kAllFlags \ kStorage_Flag,
          fColorTypeInfos |->
             << ColorTypeInfo("kA16_unorm", kUploadData_Flag \cup kCTRenderable_Flag,
                              "000r", "a000") >>]
    ELSE DefaultFormatInfo

BGRA8UnormInfo ==
    [fFlags |-> kAllFlags,
     fColorTypeInfos |->
        << ColorTypeInfo("kBGRA_8888", kUploadData_Flag \cup kCTRenderable_Flag, "rgba", "rgba"),
           ColorTypeInfo("kRGB_888x", kUploadData_Flag, "rgba", "rgba") >>]

RGBA16FloatInfo ==
    [fFlags |-> kAllFlags,
     fColorTypeInfos |->
        << ColorTypeInfo("kRGBA_F16", kUploadData_Flag \cup kCTRenderable_Flag, "rgba", "rgba") >>]

R16FloatInfo ==
    [fFlags |-> kAllFlags,
     fColorTypeInfos |->
        << ColorTypeInfo("kA16_float", kUploadData_Flag \cup kCTRenderable_Flag, "000r", "a000") >>]

RG8UnormInfo ==
    [fFlags |-> kAllFlags,
     fColorTypeInfos |->
        << ColorTypeInfo("kR8G8_unorm", kUploadData_Flag \cup kCTRenderable_Flag, "rgba", "rgba") >>]

RG16UnormInfo(device) ==
    IF "Unorm16TextureFormats" \in device
    THEN [fFlags |-> kAllFlags,
          fColorTypeInfos |->
             << ColorTypeInfo("kR16G16_unorm", kUploadData_Flag \cup kCTRenderable_Flag,
                              "rgba", "rgba") >>]
    ELSE DefaultFormatInfo

RGB10A2UnormInfo ==
    [fFlags |-> kAllFlags,
     fColorTypeInfos |->
        << ColorTypeInfo("kRGBA_1010102", kUploadData_Flag \cup kCTRenderable_Flag,
                         "rgba", "rgba") >>]

RG16FloatInfo ==
    [fFlags |-> kAllFlags,
     fColorTypeInfos |->
        << ColorTypeInfo("kR16G16_float", kUploadData_Flag \cup kCTRenderable_Flag,
                         "rgba", "rgba") >>]

ETC2RGB8UnormInfo ==
    [fFlags |-> kTexturable_Flag,
     fColorTypeInfos |-> << ColorTypeInfo("kRGB_888x", kUploadData_Flag, "rgba", "rgba") >>]

BC1RGBAUnormInfo ==
    [fFlags |-> kTexturable_Flag,
     fColorTypeInfos |-> << ColorTypeInfo("kRGBA_8888", kUploadData_Flag, "rgba", "rgba") >>]

\* Stencil8, Depth16Unorm, Depth32Float and Depth24PlusStencil8 alike.
DepthStencilInfo == [fFlags |-> kMSAA_Flag, fColorTypeInfos |-> << >>]

ExternalInfo ==
    [fFlags |-> kTexturable_Flag,
     fColorTypeInfos |-> << ColorTypeInfo("kRGBA_8888", {}, "rgba", "rgba") >>]

UndefinedInfo == [fFlags |-> {}, fColorTypeInfos |-> << >>]

\* info = &fFormatTable[GetFormatIndex(format)]; *info filled in.
SetFormatInfo(table, format, info) ==
    [table EXCEPT ![GetFormatIndex(format).index] = info]

\* The first half of initFormatTable: the entries, block after block.
\* The ETC2 and BC1 blocks look their entry up only when the device has
\* the feature; without it the entry keeps what it held.
initFormatInfos(device) ==
    LET t0  == [i \in 0..(kFormatCnt - 1) |-> DefaultFormatInfo]
        t1  == SetFormatInfo(t0, "RGBA8Unorm", RGBA8UnormInfo)
        t2  == SetFormatInfo(t1, "R8Unorm", R8UnormInfo(device))
        t3  == SetFormatInfo(t2, "R16Unorm", R16UnormInfo(device))
        t4  == SetFormatInfo(t3, "BGRA8Unorm", BGRA8UnormInfo)
        t5  == SetFormatInfo(t4, "RGBA16Float", RGBA16FloatInfo)
        t6  == SetFormatInfo(t5, "R16Float", R16FloatInfo)
        t7  == SetFormatInfo(t6, "RG8Unorm", RG8UnormInfo)
        t8  == SetFormatInfo(t7, "RG16Unorm", RG16UnormInfo(device))
        t9  == SetFormatInfo(t8, "RGB10A2Unorm", RGB10A2UnormInfo)
        t10 == SetFormatInfo(t9, "RG16Float", RG16FloatInfo)
        t11 == IF "TextureCompressionETC2" \in device
               THEN SetFormatInfo(t10, "ETC2RGB8Unorm", ETC2RGB8UnormInfo) ELSE t10
        t12 == IF "TextureCompressionBC" \in device
               THEN SetFormatInfo(t11, "BC1RGBAUnorm", BC1RGBAUnormInfo) ELSE t11
        t13 == SetFormatInfo(t12, "Stencil8", DepthStencilInfo)
        t14 == SetFormatInfo(t13, "Depth16Unorm", DepthStencilInfo)
        t15 == SetFormatInfo(t14, "Depth32Float", DepthStencilInfo)
        t16 == SetFormatInfo(t15, "Depth24PlusStencil8", DepthStencilInfo)
        t17 == SetFormatInfo(t16, "External", ExternalInfo)
    IN  SetFormatInfo(t17, "Undefined", UndefinedInfo)

\* The inner loop of setColorType: does info list colorType from entry i on.
RECURSIVE HasColorTypeFrom(_, _, _)
HasColorTypeFrom(info, colorType, i) ==
    IF i > fColorTypeInfoCount(info) THEN FALSE
    ELSE IF info.fColorTypeInfos[i].fColorType = colorType THEN TRUE
    ELSE HasColorTypeFrom(info, colorType, i + 1)

\* The outer loop without the return at the first match: the last listed
\* format with an entry for the color type wins.
RECURSIVE setColorTypeFromLastMatch(_, _, _, _, _)
setColorTypeFromLastMatch(table, ctTable, colorType, formats, k) ==
    IF k > Len(formats) THEN ctTable
    ELSE IF HasColorTypeFrom(FormatInfoIn(table, formats[k]), colorType, 1)
         THEN setColorTypeFromLastMatch(table, [ctTable EXCEPT ![colorType] = formats[k]],
                                        colorType, formats, k + 1)
         ELSE setColorTypeFromLastMatch(table, ctTable, colorType, formats, k + 1)

\* The outer loop of setColorType from the k-th listed format on.
RECURSIVE setColorTypeFrom(_, _, _, _, _)
setColorTypeFrom(table, ctTable, colorType, formats, k) ==
    IF k > Len(formats) THEN ctTable
    ELSE IF HasColorTypeFrom(FormatInfoIn(table, formats[k]), colorType, 1)
         THEN [ctTable EXCEPT ![colorType] = formats[k]]
         ELSE setColorTypeFrom(table, ctTable, colorType, formats, k + 1)

\* DawnCaps::setColorType on a format table and a color type table.
setColorType(table, ctTable, colorType, formats) ==
    setColorTypeFrom(table, ctTable, colorType, formats, 1)

\* The second half of initFormatTable: the color type to format table.
initColorTypeTable(table) ==
    LET c0  == [c \in ColorTypes |-> "Undefined"]
        c1  == setColorType(table, c0, "kAlpha_8", << "R8Unorm" >>)
        c2  == setColorType(table, c1, "kRGBA_8888", << "RGBA8Unorm" >>)
        c3  == setColorType(table, c2, "kRGB_888x", << "RGBA8Unorm", "BGRA8Unorm" >>)
        c4  == setColorType(table, c3, "kBGRA_8888", << "BGRA8Unorm" >>)
        c5  == setColorType(table, c4, "kGray_8", << "R8Unorm" >>)
        c6  == setColorType(table, c5, "kR8_unorm", << "R8Unorm" >>)
        c7  == setColorType(table, c6, "kRGBA_F16", << "RGBA16Float" >>)
        c8  == setColorType(table, c7, "kA16_float", << "R16Float" >>)
        c9  == setColorType(table, c8, "kR8G8_unorm", << "RG8Unorm" >>)
        c10 == setColorType(table, c9, "kRGBA_1010102", << "RGB10A2Unorm" >>)
        c11 == setColorType(table, c10, "kR16G16_float", << "RG16Float" >>)
        c12 == setColorType(table, c11, "kA16_unorm", << "R16Unorm" >>)
    IN  setColorType(table, c12, "kR16G16_unorm", << "RG16Unorm" >>)

\* DawnCaps::getFormatFromColorType
getFormatFromColorType(colorType) == fColorTypeToFormatTable[colorType]

(***************************************************************************)
(* The queries on formats and texture infos.  Each is what the call comes  *)
(* to on the tables of the state: Returns(v), or Aborts.                   *)
(***************************************************************************)
\* DawnCaps::isTexturable(wgpu::TextureFormat)
isTexturable(format) ==
    IF FormatIndexFails(format) THEN Aborts
    ELSE Returns((kTexturable_Flag \cap getFormatInfo(format).fFlags) # {})

\* The query without the test of the third plane of the triplanar format.
onIsTexturablePlane2Unchecked(info) ==
    IF ~info.valid THEN Returns(FALSE)
    ELSE IF (info.fUsage \cap TextureBinding) = {} THEN Returns(FALSE)
    ELSE IF /\ info.fFormat = "R8BG8Biplanar420Unorm"
            /\ \/ info.fAspect = "Plane0Only" /\ getViewFormat(info) # "R8Unorm"
               \/ info.fAspect = "Plane1Only" /\ getViewFormat(info) # "RG8Unorm"
         THEN Returns(FALSE)
    ELSE IF /\ info.fFormat = "R10X6BG10X6Biplanar420Unorm"
            /\ \/ info.fAspect = "Plane0Only" /\ getViewFormat(info) # "R16Unorm"
               \/ info.fAspect = "Plane1Only" /\ getViewFormat(info) # "RG16Unorm"
         THEN Returns(FALSE)
    ELSE IF /\ info.fFormat = "R8BG8A8Triplanar420Unorm"
            /\ \/ info.fAspect = "Plane0Only" /\ getViewFormat(info) # "R8Unorm"
               \/ info.fAspect = "Plane1Only" /\ getViewFormat(info) # "RG8Unorm"
         THEN Returns(FALSE)
    ELSE isTexturable(getViewFormat(info))

\* DawnCaps::onIsTexturable(const TextureInfo&)
onIsTexturable(info) ==
    IF ~info.valid THEN Returns(FALSE)
    ELSE IF (info.fUsage \cap TextureBinding) = {} THEN Returns(FALSE)
    ELSE IF /\ info.fFormat = "R8BG8Biplanar420Unorm"
            /\ \/ info.fAspect = "Plane0Only" /\ getViewFormat(info) # "R8Unorm"
               \/ info.fAspect = "Plane1Only" /\ getViewFormat(info) # "RG8Unorm"
         THEN Returns(FALSE)
    ELSE IF /\ info.fFormat = "R10X6BG10X6Biplanar420Unorm"
            /\ \/ info.fAspect = "Plane0Only" /\ getViewFormat(info) # "R16Unorm"
               \/ info.fAspect = "Plane1Only" /\ getViewFormat(info) # "RG16Unorm"
         THEN Returns(FALSE)
    ELSE IF /\ info.fFormat = "R8BG8A8Triplanar420Unorm"
            /\ \/ info.fAspect = "Plane0Only" /\ getViewFormat(info) # "R8Unorm"
               \/ info.fAspect = "Plane1Only" /\ getViewFormat(info) # "RG8Unorm"
               \/ info.fAspect = "Plane2Only" /\ getViewFormat(info) # "R8Unorm"
         THEN Returns(FALSE)
    ELSE isTexturable(getViewFormat(info))

\* The body of maxRenderTargetSampleCount once it holds formatInfo.
SampleCountOfFormatInfo(formatInfo) ==
    IF (formatInfo.fFlags \cap kRenderable_Flag) = {} THEN 0
    ELSE IF (formatInfo.fFlags \cap kMSAA_Flag) # {} THEN 8
    ELSE 1

\* DawnCaps::maxRenderTargetSampleCount
maxRenderTargetSampleCount(format) ==
    IF FormatIndexFails(format) THEN Aborts
    ELSE Returns(SampleCountOfFormatInfo(getFormatInfo(format)))

\* The comparison with < in place of <=.
isRenderableFormatBelowMax(format, sampleCount) ==
    LET max == maxRenderTargetSampleCount(format)
    IN  IF max.aborted THEN Aborts ELSE Returns(sampleCount < max.value)

\* DawnCaps::isRenderable(wgpu::TextureFormat, uint32_t)
isRenderableFormat(format, sampleCount) ==
    LET max == maxRenderTargetSampleCount(format)
    IN  IF max.aborted THEN Aborts ELSE Returns(sampleCount <= max.value)

\* DawnCaps::isRenderable(const TextureInfo&)
isRenderable(info) ==
    IF ~info.valid THEN Returns(FALSE)
    ELSE IF (info.fUsage \cap RenderAttachment) = {} THEN Returns(FALSE)
    ELSE isRenderableFormat(getViewFormat(info), info.fSampleCount)

\* DawnCaps::isStorage
isStorage(info) ==
    IF ~info.valid THEN Returns(FALSE)
    ELSE IF (info.fUsage \cap StorageBinding) = {} THEN Returns(FALSE)
    ELSE IF FormatIndexFails(getViewFormat(info)) THEN Aborts
    ELSE Returns(/\ info.fSampleCount = 1
                 /\ (kStorage_Flag \cap getFormatInfo(getViewFormat(info)).fFlags) # {})

(***************************************************************************)
(* The default texture descriptor factories.                               *)
(***************************************************************************)
\* The factory that refuses a renderable texture of a color type whose entry
\* under the mapped format lacks the renderable flag.
getDefaultSampledTextureInfoByColorTypeFlag(colorType, mipmapped, protected, renderable) ==
    LET usage  == (TextureBinding \cup CopyDst \cup CopySrc)
                     \cup (IF renderable THEN RenderAttachment ELSE {})
        format == getFormatFromColorType(colorType)
    IN  IF format = "Undefined" THEN Returns(NullTextureInfo)
        ELSE IF /\ renderable
                /\ \A i \in 1..fColorTypeInfoCount(getFormatInfo(format)) :
                      getFormatInfo(format).fColorTypeInfos[i].fColorType = colorType
                         => (getFormatInfo(format).fColorTypeInfos[i].fFlags
                                \cap kCTRenderable_Flag) = {}
             THEN Returns(NullTextureInfo)
        ELSE Returns(DawnTextureInfo(1, mipmapped, format, format, usage, "All"))

\* The factory with RenderAttachment in the usage of every descriptor.
getDefaultSampledTextureInfoAlwaysRenderable(colorType, mipmapped, protected, renderable) ==
    LET usage  == (TextureBinding \cup CopyDst \cup CopySrc) \cup RenderAttachment
        format == getFormatFromColorType(colorType)
    IN  IF format = "Undefined" THEN Returns(NullTextureInfo)
        ELSE Returns(DawnTextureInfo(1, mipmapped, format, format, usage, "All"))

\* DawnCaps::getDefaultSampledTextureInfo; renderable is Renderable::kYes.
getDefaultSampledTextureInfo(colorType, mipmapped, protected, renderable) ==
    LET usage  == (TextureBinding \cup CopyDst \cup CopySrc)
                     \cup (IF renderable THEN RenderAttachment ELSE {})
        format == getFormatFromColorType(colorType)
    IN  IF format = "Undefined" THEN Returns(NullTextureInfo)
        ELSE Returns(DawnTextureInfo(1, mipmapped, format, format, usage, "All"))

\* The copy that adds the sampled usage to the usage of the input.
getTextureInfoForSampledCopyKeepingUsage(textureInfo, mipmapped) ==
    IF ~textureInfo.valid THEN Returns(NullTextureInfo)
    ELSE Returns([textureInfo EXCEPT !.fSampleCount = 1,
                                     !.fMipmapped = mipmapped,
                                     !.fUsage = @ \cup TextureBinding \cup CopyDst \cup CopySrc])

\* TextureInfo::getDawnTextureInfo and the fields DawnCaps then overwrites.
getTextureInfoForSampledCopy(textureInfo, mipmapped) ==
    IF ~textureInfo.valid THEN Returns(NullTextureInfo)
    ELSE Returns([textureInfo EXCEPT !.fSampleCount = 1,
                                     !.fMipmapped = mipmapped,
                                     !.fUsage = TextureBinding \cup CopyDst \cup CopySrc])

\* format_from_compression
format_from_compression(compression) ==
    CASE compression = "kETC2_RGB8_UNORM" -> "ETC2RGB8Unorm"
      [] compression = "kBC1_RGBA8_UNORM" -> "BC1RGBAUnorm"
      [] OTHER -> "Undefined"

\* DawnCaps::getDefaultCompressedTextureInfo
getDefaultCompressedTextureInfo(compression, mipmapped, protected) ==
    LET usage  == TextureBinding \cup CopyDst \cup CopySrc
        format == format_from_compression(compression)
    IN  IF format = "Undefined" THEN Returns(NullTextureInfo)
        ELSE Returns(DawnTextureInfo(1, mipmapped, format, format, usage, "All"))

\* The factory that takes the view format of the single-sampled texture.
getDefaultMSAATextureInfoOfViewFormat(singleSampledInfo, discardable) ==
    IF fDefaultMSAASamples <= 1 THEN Returns(NullTextureInfo)
    ELSE Returns(DawnTextureInfo(
            fDefaultMSAASamples, FALSE,
            getViewFormat(singleSampledInfo), getViewFormat(singleSampledInfo),
            RenderAttachment \cup
                (IF fSupportedTransientAttachmentUsage # UsageNone /\ discardable
                 THEN fSupportedTransientAttachmentUsage ELSE {}),
            "All"))

\* DawnCaps::getDefaultMSAATextureInfo; discardable is Discardable::kYes.
getDefaultMSAATextureInfo(singleSampledInfo, discardable) ==
    IF fDefaultMSAASamples <= 1 THEN Returns(NullTextureInfo)
    ELSE Returns(DawnTextureInfo(
            fDefaultMSAASamples, FALSE, singleSampledInfo.fFormat, singleSampledInfo.fFormat,
            RenderAttachment \cup
                (IF fSupportedTransientAttachmentUsage # UsageNone /\ discardable
                 THEN fSupportedTransientAttachmentUsage ELSE {}),
            "All"))

\* DawnCaps::getDefaultDepthStencilTextureInfo; format is what
\* DawnDepthStencilFlagsToFormat(depthStencilType) returned.
getDefaultDepthStencilTextureInfo(format, sampleCount, protected) ==
    Returns(DawnTextureInfo(
        sampleCount, FALSE, format, format,
        RenderAttachment \cup
            (IF fSupportedTransientAttachmentUsage # UsageNone
             THEN fSupportedTransientAttachmentUsage ELSE {}),
        "All"))

\* The factory without the test of the storage flag.
StorageTextureInfoOfFormatUnchecked(format) ==
    IF format = "Undefined" THEN Returns(NullTextureInfo)
    ELSE IF FormatIndexFails(format) THEN Aborts
    ELSE Returns(DawnTextureInfo(1, FALSE, format, format,
                                 StorageBinding \cup TextureBinding \cup CopySrc, "All"))

\* DawnCaps::getDefaultStorageTextureInfo from the read of the format table
\* on: format is what the color type table gave.
StorageTextureInfoOfFormat(format) ==
    IF format = "Undefined" THEN Returns(NullTextureInfo)
    ELSE IF FormatIndexFails(format) THEN Aborts
    ELSE IF (kStorage_Flag \cap getFormatInfo(format).fFlags) = {}
         THEN Returns(NullTextureInfo)
    ELSE Returns(DawnTextureInfo(1, FALSE, format, format,
                                 StorageBinding \cup TextureBinding \cup CopySrc, "All"))

\* DawnCaps::getDefaultStorageTextureInfo
getDefaultStorageTextureInfo(colorType) ==
    StorageTextureInfoOfFormat(getFormatFromColorType(colorType))

(***************************************************************************)
(* Color types of a texture.                                               *)
(***************************************************************************)
nullptr == [null |-> TRUE]

\* The loop that hands out the last entry looked at when none matches.
RECURSIVE FindColorTypeInfoOffByOne(_, _, _)
FindColorTypeInfoOffByOne(info, colorType, i) ==
    IF i > fColorTypeInfoCount(info) THEN nullptr
    ELSE IF info.fColorTypeInfos[i].fColorType = colorType THEN info.fColorTypeInfos[i]
    ELSE IF i = fColorTypeInfoCount(info) THEN info.fColorTypeInfos[i]
    ELSE FindColorTypeInfoOffByOne(info, colorType, i + 1)

\* The loop of getColorTypeInfo and of supportedReadPixelsColorType from
\* entry i on: the first entry for colorType, or nullptr.
RECURSIVE FindColorTypeInfo(_, _, _)
FindColorTypeInfo(info, colorType, i) ==
    IF i > fColorTypeInfoCount(info) THEN nullptr
    ELSE IF info.fColorTypeInfos[i].fColorType = colorType THEN info.fColorTypeInfos[i]
    ELSE FindColorTypeInfo(info, colorType, i + 1)

\* DawnCaps::getColorTypeInfo, of a valid texture info.
getColorTypeInfo(colorType, textureInfo) ==
    LET dawnFormat == getViewFormat(textureInfo)
    IN  IF dawnFormat = "Undefined"
        THEN (IF debugBuild THEN Aborts ELSE Returns(nullptr))
        ELSE IF FormatIndexFails(dawnFormat) THEN Aborts
        ELSE Returns(FindColorTypeInfo(getFormatInfo(dawnFormat), colorType, 1))

\* DawnCaps::supportsWritePixels, of a valid texture info.
supportsWritePixels(textureInfo) == Returns((textureInfo.fUsage \cap CopyDst) # {})

\* DawnCaps::supportsReadPixels, of a valid texture info.
supportsReadPixels(textureInfo) == Returns((textureInfo.fUsage \cap CopySrc) # {})

\* DawnCaps::supportedWritePixelsColorType
supportedWritePixelsColorType(dstColorType, dstTextureInfo, srcColorType) ==
    Returns(<<dstColorType, FALSE>>)

\* The query that looks the color type up under the view format of the
\* texture it is handed instead of the format the color type is mapped to.
supportedReadPixelsColorTypeOfTexture(srcColorType, srcTextureInfo, dstColorType) ==
    LET dawnFormat == getViewFormat(srcTextureInfo)
    IN  IF FormatIndexFails(dawnFormat) THEN Aborts
        ELSE IF FindColorTypeInfo(getFormatInfo(dawnFormat), srcColorType, 1) # nullptr
             THEN Returns(<<srcColorType, FALSE>>)
        ELSE Returns(<<"kUnknown", FALSE>>)

\* DawnCaps::supportedReadPixelsColorType
supportedReadPixelsColorType(srcColorType, srcTextureInfo, dstColorType) ==
    LET dawnFormat == getFormatFromColorType(srcColorType)
    IN  IF FormatIndexFails(dawnFormat) THEN Aborts
        ELSE IF FindColorTypeInfo(getFormatInfo(dawnFormat), srcColorType, 1) # nullptr
             THEN Returns(<<srcColorType, FALSE>>)
        ELSE Returns(<<"kUnknown", FALSE>>)

(***************************************************************************)
(* Machine words.  A uint32_t is <<lo, hi>> and a uint64_t is              *)
(* <<w0, w1, w2, w3>>, 16-bit limbs with the least significant first.      *)
(***************************************************************************)
Pow2(n) == 2 ^ n

Limb == Pow2(16)

\* The uint32_t of a number below 2^31.
U32(n) == << n % Limb, (n \div Limb) % Limb >>

\* a | b of two limbs, bit by bit.
RECURSIVE Or16(_, _)
Or16(a, b) ==
    IF a = 0 THEN b
    ELSE IF b = 0 THEN a
    ELSE (IF a % 2 = 1 \/ b % 2 = 1 THEN 1 ELSE 0) + 2 * Or16(a \div 2, b \div 2)

\* a | b of two uint32_t.
Or32(a, b) == << Or16(a[1], b[1]), Or16(a[2], b[2]) >>

\* a << n of a uint32_t, 0 <= n <= 16: the bits shifted past bit 31 are lost.
Shl32(a, n) ==
    IF n = 0 THEN a
    ELSE IF n = 16 THEN << 0, a[1] >>
    ELSE << (a[1] * Pow2(n)) % Limb,
            ((a[2] * Pow2(n)) % Limb) + (a[1] \div Pow2(16 - n)) >>

\* (uint64_t)a
U64(a) == << a[1], a[2], 0, 0 >>

\* a << 32 of a uint64_t.
Shl64by32(a) == << 0, 0, a[1], a[2] >>

\* a | b of two uint64_t.
Or64(a, b) == [i \in 1..4 |-> Or16(a[i], b[i])]

\* a & 0xFFFFFFFF and (a >> 32) & 0xFFFFFFFF of a uint64_t, as uint32_t.
Low32(a)  == << a[1], a[2] >>
High32(a) == << a[3], a[4] >>

\* a < 2^n of a uint32_t, for 16 <= n <= 32, and a < m for m <= 2^16.
Below2Pow(a, n) == a[2] < Pow2(n - 16)
BelowSmall(a, m) == a[2] = 0 /\ a[1] < m

(***************************************************************************)
(* The key builders.                                                       *)
(***************************************************************************)
\* DawnCaps::resolveTextureLoadOp
resolveTextureLoadOp == fSupportedResolveTextureLoadOp

\* The SkASSERT of getRenderPassDescKeyForPipeline.  A render pass is the
\* view formats and sample counts of its color and depth-stencil infos, as
\* uint32_t, and the validity and load op of its resolve attachment.
RenderPassKeyAsserted(rp) ==
    /\ BelowSmall(rp.colorViewFormat, Limb)
    /\ BelowSmall(rp.dsViewFormat, Limb)
    /\ BelowSmall(rp.colorSampleCount, 32767)

\* The bit set for every valid resolve attachment, whatever its load op.
loadResolveAttachmentKeyOfAnyResolve(rp) ==
    IF /\ resolveTextureLoadOp # "nullopt"
       /\ rp.resolveValid
    THEN 1 ELSE 0

\* loadResolveAttachmentKey
loadResolveAttachmentKey(rp) ==
    IF /\ resolveTextureLoadOp # "nullopt"
       /\ rp.resolveValid
       /\ rp.resolveLoadOp = "kLoad"
    THEN 1 ELSE 0

\* colorAttachmentKey
colorAttachmentKey(rp) ==
    Or32(Or32(Shl32(rp.colorViewFormat, 16), Shl32(rp.colorSampleCount, 1)),
         U32(loadResolveAttachmentKey(rp)))

\* dsAttachmentKey
dsAttachmentKey(rp) == Or32(Shl32(rp.dsViewFormat, 16), rp.dsSampleCount)

\* DawnCaps::getRenderPassDescKeyForPipeline
getRenderPassDescKeyForPipeline(rp) ==
    IF debugBuild /\ ~RenderPassKeyAsserted(rp) THEN Aborts
    ELSE Returns(Or64(Shl64by32(U64(colorAttachmentKey(rp))), U64(dsAttachmentKey(rp))))

\* SamplesToKey
SamplesToKey(numSamples) ==
    CASE numSamples = 1 -> 0
      [] numSamples = 2 -> 1
      [] numSamples = 4 -> 2
      [] numSamples = 8 -> 3
      [] numSamples = 16 -> 4

\* The three SkASSERTs on the parts of the fourth word of the texture key.
\* t is the request: dimensions, view format and usage as uint32_t, the
\* sample count and the mip flag.
TextureKeyAsserted(t) ==
    /\ SamplesToKey(t.numSamples) < Pow2(3)
    /\ (IF t.mipmapped THEN 1 ELSE 0) < Pow2(1)
    /\ Below2Pow(t.usage, 28)

\* The fourth word with the usage shifted by one bit too few.
TextureKeyWord3Overlapping(t) ==
    Or32(Or32(Shl32(U32(SamplesToKey(t.numSamples)), 0),
              Shl32(U32(IF t.mipmapped THEN 1 ELSE 0), 3)),
         Shl32(t.usage, 3))

\* builder[3] of buildKeyForTexture
TextureKeyWord3(t) ==
    Or32(Or32(Shl32(U32(SamplesToKey(t.numSamples)), 0),
              Shl32(U32(IF t.mipmapped THEN 1 ELSE 0), 3)),
         Shl32(t.usage, 4))

\* DawnCaps::buildKeyForTexture: the key it leaves in *key.  numData is the
\* value read from the static kNum32DataCnt.
buildKeyForTexture(t, type, shareable, numData) ==
    IF debugBuild /\ ~TextureKeyAsserted(t) THEN Aborts
    ELSE Returns([type |-> type, shareable |-> shareable, count |-> numData,
                  data |-> << U32(t.width), U32(t.height), t.viewFormat,
                              TextureKeyWord3(t) >>])

\* The body of makeGraphicsPipelineKey after the static: the five words.
GraphicsPipelineKeyData(pipelineDesc, renderPassKey, writeSwizzle) ==
    << U32(pipelineDesc.renderStepID), U32(pipelineDesc.paintParamsID),
       Low32(renderPassKey), High32(renderPassKey), U32(writeSwizzle) >>

\* The body of makeComputePipelineKey after the static: the one word.
ComputePipelineKeyData(computeStepID) == << U32(computeStepID) >>

(***************************************************************************)
(* What the callers ask.                                                   *)
(***************************************************************************)
SampledUsage == TextureBinding \cup CopyDst \cup CopySrc

UsageInputs ==
    { SampledUsage,
      SampledUsage \cup RenderAttachment,
      StorageBinding \cup TextureBinding \cup CopySrc,
      RenderAttachment \cup TransientAttachment }

InfoFormats ==
    {"RGBA8Unorm", "R8Unorm", "R16Unorm", "Depth16Unorm", "BC1RGBAUnorm", "Undefined",
     "RGBA8Snorm"}

PlaneViewFormats == {"R8Unorm", "RG8Unorm", "R16Unorm", "RG16Unorm"}

Aspects == {"All", "Plane0Only", "Plane1Only", "Plane2Only"}

\* Texture infos of one format, of a format with another view format, and
\* of the planes of the multiplanar formats.
PlainInfos ==
    { DawnTextureInfo(n, FALSE, f, f, u, "All") :
        n \in {1, 4}, f \in InfoFormats, u \in UsageInputs }

ViewInfos ==
    { DawnTextureInfo(1, FALSE, "RGBA8Unorm", v, SampledUsage, "All") :
        v \in {"Undefined", "BGRA8Unorm"} }

PlaneInfos ==
    { DawnTextureInfo(1, FALSE, f, v, SampledUsage, a) :
        f \in MultiplanarFormats, v \in PlaneViewFormats, a \in Aspects }

WholeInfos == {NullTextureInfo} \cup PlainInfos \cup ViewInfos

TextureInfoInputs == WholeInfos \cup PlaneInfos

\* The valid single-sampled ones.
SingleSampledInfos == { i \in WholeInfos : i.valid /\ i.fSampleCount = 1 }

\* One sampled texture info per format.
FormatInfos == { DawnTextureInfo(1, FALSE, f, f, SampledUsage, "All") : f \in TextureFormats }

SampleCounts == {1, 2, 4, 8, 16}

CompressionTypes == {"kNone", "kETC2_RGB8_UNORM", "kBC1_RGBA8_UNORM"}

DepthStencilFormats ==
    {"Stencil8", "Depth16Unorm", "Depth32Float", "Depth24PlusStencil8", "Undefined"}

\* uint32_t values of view formats and sample counts of render passes.
ViewFormatWords == { U32(1), U32(65535), U32(65536) }
ColorSampleWords == { U32(4), U32(32766), U32(32767) }
DepthStencilFormatWords == { U32(0), U32(1), U32(65535) }
DepthStencilSampleWords == { U32(1), U32(4), U32(65537) }
ResolveInputs == { <<FALSE, "kClear">>, <<TRUE, "kClear">>, <<TRUE, "kLoad">> }

RenderPassInputs ==
    { [colorViewFormat |-> cf, colorSampleCount |-> cs, dsViewFormat |-> df,
       dsSampleCount |-> ds, resolveValid |-> r[1], resolveLoadOp |-> r[2]] :
        cf \in ViewFormatWords, cs \in ColorSampleWords, df \in DepthStencilFormatWords,
        ds \in DepthStencilSampleWords, r \in ResolveInputs }

\* uint32_t values of the usage of a texture: what the factories produce,
\* the largest value within 28 bits, the smallest beyond, and all ones.
UsageWords == { U32(7), U32(23), << 65535, 4095 >>, << 0, 4096 >>, << 65535, 65535 >> }

\* Width, height and view format of a texture.
DimensionInputs == { <<1, 1, 1>>, <<256, 1, 18>>, <<1, 256, 1>> }

TextureKeyInputs ==
    { [width |-> d[1], height |-> d[2], viewFormat |-> U32(d[3]), numSamples |-> n,
       mipmapped |-> m, usage |-> u] :
        d \in DimensionInputs, n \in {1, 4, 16}, m \in BOOLEAN, u \in UsageWords }

(***************************************************************************)
(* The state after construction.                                           *)
(***************************************************************************)
NoCall == [op |-> "none"]
NoResult == [none |-> TRUE]

\* A function-local static with a dynamic initializer, before first use.
Uninitialized == [guard |-> "uninit", value |-> 0]

\* DawnCaps::DawnCaps on a device with any features, in either build.
Init ==
    /\ debugBuild \in BOOLEAN
    /\ features \in SUBSET Features
    /\ fFormatTable = initFormatInfos(features)
    /\ fColorTypeToFormatTable = initColorTypeTable(fFormatTable)
    /\ fSupportedTransientAttachmentUsage =
          (IF "TransientAttachments" \in features THEN TransientAttachment ELSE UsageNone)
    /\ fSupportedResolveTextureLoadOp =
          (IF "DawnLoadResolveTexture" \in features THEN "ExpandResolveTexture" ELSE "nullopt")
    /\ fDefaultMSAASamples \in {1, 4}
    /\ fMaxTextureSize \in {8192}
    /\ call = NoCall
    /\ result = NoResult
    /\ kGraphicsPipelineDomain = Uninitialized
    /\ kComputePipelineDomain = Uninitialized
    /\ kNum32DataCnt = 2 + 1 + 1
    /\ nextDomain = 1
    /\ tpc = [t \in Threads |-> "idle"]
    /\ tcall = [t \in Threads |-> NoCall]
    /\ tlocal = [t \in Threads |-> NoResult]
    /\ tresult = [t \in Threads |-> NoResult]

(***************************************************************************)
(* One caller: it makes a call, may make it again, and takes the result.   *)
(* In each action the first disjunct is a call with any arguments and the  *)
(* second the same call once more.                                         *)
(***************************************************************************)
CallGetFormatIndex ==
    /\ \/ /\ call = NoCall
          /\ \E f \in TextureFormats : call' = [op |-> "GetFormatIndex", format |-> f]
       \/ /\ call.op = "GetFormatIndex"
          /\ call' = call
    /\ result' = IF FormatIndexFails(call'.format) THEN Aborts
                 ELSE Returns(GetFormatIndex(call'.format).index)
    /\ UNCHANGED <<caps, statics, threads>>

CallIsTexturable ==
    /\ \/ /\ call = NoCall
          /\ \E f \in TextureFormats : call' = [op |-> "isTexturable", format |-> f]
       \/ /\ call.op = "isTexturable"
          /\ call' = call
    /\ result' = isTexturable(call'.format)
    /\ UNCHANGED <<caps, statics, threads>>

CallOnIsTexturable ==
    /\ \/ /\ call = NoCall
          /\ \E i \in TextureInfoInputs : call' = [op |-> "onIsTexturable", info |-> i]
       \/ /\ call.op = "onIsTexturable"
          /\ call' = call
    /\ result' = onIsTexturable(call'.info)
    /\ UNCHANGED <<caps, statics, threads>>

CallMaxRenderTargetSampleCount ==
    /\ \/ /\ call = NoCall
          /\ \E f \in TextureFormats :
                call' = [op |-> "maxRenderTargetSampleCount", format |-> f]
       \/ /\ call.op = "maxRenderTargetSampleCount"
          /\ call' = call
    /\ result' = maxRenderTargetSampleCount(call'.format)
    /\ UNCHANGED <<caps, statics, threads>>

CallIsRenderableFormat ==
    /\ \/ /\ call = NoCall
          /\ \E f \in TextureFormats, n \in {1, 8, 16} :
                call' = [op |-> "isRenderableFormat", format |-> f, sampleCount |-> n]
       \/ /\ call.op = "isRenderableFormat"
          /\ call' = call
    /\ result' = isRenderableFormat(call'.format, call'.sampleCount)
    /\ UNCHANGED <<caps, statics, threads>>

CallIsRenderable ==
    /\ \/ /\ call = NoCall
          /\ \E i \in WholeInfos : call' = [op |-> "isRenderable", info |-> i]
       \/ /\ call.op = "isRenderable"
          /\ call' = call
    /\ result' = isRenderable(call'.info)
    /\ UNCHANGED <<caps, statics, threads>>

CallIsStorage ==
    /\ \/ /\ call = NoCall
          /\ \E i \in WholeInfos : call' = [op |-> "isStorage", info |-> i]
       \/ /\ call.op = "isStorage"
          /\ call' = call
    /\ result' = isStorage(call'.info)
    /\ UNCHANGED <<caps, statics, threads>>

CallGetDefaultSampledTextureInfo ==
    /\ \/ /\ call = NoCall
          /\ \E c \in ColorTypes, m \in BOOLEAN, p \in BOOLEAN, r \in BOOLEAN :
                call' = [op |-> "getDefaultSampledTextureInfo", colorType |-> c,
                         mipmapped |-> m, protected |-> p, renderable |-> r]
       \/ /\ call.op = "getDefaultSampledTextureInfo"
          /\ call' = call
    /\ result' = getDefaultSampledTextureInfo(call'.colorType, call'.mipmapped,
                                              call'.protected, call'.renderable)
    /\ UNCHANGED <<caps, statics, threads>>

CallGetTextureInfoForSampledCopy ==
    /\ \/ /\ call = NoCall
          /\ \E i \in TextureInfoInputs, m \in BOOLEAN :
                call' = [op |-> "getTextureInfoForSampledCopy", info |-> i, mipmapped |-> m]
       \/ /\ call.op = "getTextureInfoForSampledCopy"
          /\ call' = call
    /\ result' = getTextureInfoForSampledCopy(call'.info, call'.mipmapped)
    /\ UNCHANGED <<caps, statics, threads>>

CallGetDefaultCompressedTextureInfo ==
    /\ \/ /\ call = NoCall
          /\ \E c \in CompressionTypes, m \in BOOLEAN, p \in BOOLEAN :
                call' = [op |-> "getDefaultCompressedTextureInfo", compression |-> c,
                         mipmapped |-> m, protected |-> p]
       \/ /\ call.op = "getDefaultCompressedTextureInfo"
          /\ call' = call
    /\ result' = getDefaultCompressedTextureInfo(call'.compression, call'.mipmapped,
                                                 call'.protected)
    /\ UNCHANGED <<caps, statics, threads>>

CallGetDefaultMSAATextureInfo ==
    /\ \/ /\ call = NoCall
          /\ \E i \in SingleSampledInfos, d \in BOOLEAN :
                call' = [op |-> "getDefaultMSAATextureInfo", info |-> i, discardable |-> d]
       \/ /\ call.op = "getDefaultMSAATextureInfo"
          /\ call' = call
    /\ result' = getDefaultMSAATextureInfo(call'.info, call'.discardable)
    /\ UNCHANGED <<caps, statics, threads>>

CallGetDefaultDepthStencilTextureInfo ==
    /\ \/ /\ call = NoCall
          /\ \E f \in DepthStencilFormats, n \in SampleCounts \ {16}, p \in BOOLEAN :
                call' = [op |-> "getDefaultDepthStencilTextureInfo", format |-> f,
                         sampleCount |-> n, protected |-> p]
       \/ /\ call.op = "getDefaultDepthStencilTextureInfo"
          /\ call' = call
    /\ result' = getDefaultDepthStencilTextureInfo(call'.format, call'.sampleCount,
                                                   call'.protected)
    /\ UNCHANGED <<caps, statics, threads>>

\* The query that forgets the mapping of a color type it has no storage
\* texture for.
CallGetDefaultStorageTextureInfoForgetting ==
    /\ \/ /\ call = NoCall
          /\ \E c \in ColorTypes :
                call' = [op |-> "getDefaultStorageTextureInfo", colorType |-> c]
       \/ /\ call.op = "getDefaultStorageTextureInfo"
          /\ call' = call
    /\ result' = getDefaultStorageTextureInfo(call'.colorType)
    /\ fColorTypeToFormatTable' =
          IF result'.value.valid THEN fColorTypeToFormatTable
          ELSE [fColorTypeToFormatTable EXCEPT ![call'.colorType] = "Undefined"]
    /\ UNCHANGED <<debugBuild, features, fFormatTable, fSupportedTransientAttachmentUsage,
                   fSupportedResolveTextureLoadOp, fDefaultMSAASamples, fMaxTextureSize,
                   statics, threads>>

CallGetDefaultStorageTextureInfo ==
    /\ \/ /\ call = NoCall
          /\ \E c \in ColorTypes :
                call' = [op |-> "getDefaultStorageTextureInfo", colorType |-> c]
       \/ /\ call.op = "getDefaultStorageTextureInfo"
          /\ call' = call
    /\ result' = getDefaultStorageTextureInfo(call'.colorType)
    /\ UNCHANGED <<caps, statics, threads>>

CallGetColorTypeInfo ==
    /\ \/ /\ call = NoCall
          /\ \E c \in ColorTypes, i \in FormatInfos \cup ViewInfos :
                call' = [op |-> "getColorTypeInfo", colorType |-> c, info |-> i]
       \/ /\ call.op = "getColorTypeInfo"
          /\ call' = call
    /\ result' = getColorTypeInfo(call'.colorType, call'.info)
    /\ UNCHANGED <<caps, statics, threads>>

CallSupportsWritePixels ==
    /\ \/ /\ call = NoCall
          /\ \E i \in SingleSampledInfos : call' = [op |-> "supportsWritePixels", info |-> i]
       \/ /\ call.op = "supportsWritePixels"
          /\ call' = call
    /\ result' = supportsWritePixels(call'.info)
    /\ UNCHANGED <<caps, statics, threads>>

CallSupportsReadPixels ==
    /\ \/ /\ call = NoCall
          /\ \E i \in SingleSampledInfos : call' = [op |-> "supportsReadPixels", info |-> i]
       \/ /\ call.op = "supportsReadPixels"
          /\ call' = call
    /\ result' = supportsReadPixels(call'.info)
    /\ UNCHANGED <<caps, statics, threads>>

CallSupportedWritePixelsColorType ==
    /\ \/ /\ call = NoCall
          /\ \E d \in ColorTypes, i \in ViewInfos, c \in {"kRGBA_8888"} :
                call' = [op |-> "supportedWritePixelsColorType", dstColorType |-> d,
                         info |-> i, srcColorType |-> c]
       \/ /\ call.op = "supportedWritePixelsColorType"
          /\ call' = call
    /\ result' = supportedWritePixelsColorType(call'.dstColorType, call'.info,
                                               call'.srcColorType)
    /\ UNCHANGED <<caps, statics, threads>>

CallSupportedReadPixelsColorType ==
    /\ \/ /\ call = NoCall
          /\ \E c \in ColorTypes, i \in ViewInfos, d \in {"kRGBA_8888", "kAlpha_8"} :
                call' = [op |-> "supportedReadPixelsColorType", srcColorType |-> c,
                         info |-> i, dstColorType |-> d]
       \/ /\ call.op = "supportedReadPixelsColorType"
          /\ call' = call
    /\ result' = supportedReadPixelsColorType(call'.srcColorType, call'.info,
                                              call'.dstColorType)
    /\ UNCHANGED <<caps, statics, threads>>

CallGetRenderPassDescKeyForPipeline ==
    /\ \/ /\ call = NoCall
          /\ \E rp \in RenderPassInputs :
                call' = [op |-> "getRenderPassDescKeyForPipeline", renderPassDesc |-> rp]
       \/ /\ call.op = "getRenderPassDescKeyForPipeline"
          /\ call' = call
    /\ result' = getRenderPassDescKeyForPipeline(call'.renderPassDesc)
    /\ UNCHANGED <<caps, statics, threads>>

CallBuildKeyForTexture ==
    /\ \/ /\ call = NoCall
          /\ \E t \in TextureKeyInputs, ty \in {"kTexture"}, sh \in BOOLEAN :
                call' = [op |-> "buildKeyForTexture", texture |-> t, type |-> ty,
                         shareable |-> sh]
       \/ /\ call.op = "buildKeyForTexture"
          /\ call' = call
    /\ result' = buildKeyForTexture(call'.texture, call'.type, call'.shareable,
                                    kNum32DataCnt)
    /\ UNCHANGED <<caps, statics, threads>>

\* The caller takes the result and is free to make another call.
Return ==
    /\ call # NoCall
    /\ call' = NoCall
    /\ result' = NoResult
    /\ UNCHANGED <<caps, statics, threads>>

Next ==
    \/ CallGetFormatIndex
    \/ CallIsTexturable
    \/ CallOnIsTexturable
    \/ CallMaxRenderTargetSampleCount
    \/ CallIsRenderableFormat
    \/ CallIsRenderable
    \/ CallIsStorage
    \/ CallGetDefaultSampledTextureInfo
    \/ CallGetTextureInfoForSampledCopy
    \/ CallGetDefaultCompressedTextureInfo
    \/ CallGetDefaultMSAATextureInfo
    \/ CallGetDefaultDepthStencilTextureInfo
    \/ CallGetDefaultStorageTextureInfo
    \/ CallGetColorTypeInfo
    \/ CallSupportsWritePixels
    \/ CallSupportsReadPixels
    \/ CallSupportedWritePixelsColorType
    \/ CallSupportedReadPixelsColorType
    \/ CallGetRenderPassDescKeyForPipeline
    \/ CallBuildKeyForTexture
    \/ Return

Spec == Init /\ [][Next]_vars

(***************************************************************************)
(* Several callers at once, each on a thread of its own, on the one        *)
(* object.  A function-local static with a dynamic initializer is          *)
(* initialized by the first thread to reach its declaration, while any     *)
(* other thread that reaches it waits.                                     *)
(***************************************************************************)
ThreadRenderPass ==
    [colorViewFormat |-> U32(18), colorSampleCount |-> U32(4), dsViewFormat |-> U32(40),
     dsSampleCount |-> U32(4), resolveValid |-> TRUE, resolveLoadOp |-> "kLoad"]

ThreadTexture ==
    [width |-> 256, height |-> 256, viewFormat |-> U32(18), numSamples |-> 4,
     mipmapped |-> TRUE, usage |-> U32(23)]

\* What a thread may call.
ThreadCalls ==
    { [op |-> "makeGraphicsPipelineKey",
       pipelineDesc |-> [renderStepID |-> 3, paintParamsID |-> 5],
       renderPassDesc |-> ThreadRenderPass, writeSwizzle |-> 12816],
      [op |-> "makeComputePipelineKey", computeStepID |-> 7],
      [op |-> "buildKeyForTexture", texture |-> ThreadTexture, type |-> "kTexture",
       shareable |-> TRUE],
      [op |-> "getDefaultStorageTextureInfo", colorType |-> "kR8_unorm"] }

\* Where a call starts.
FirstStep(op) ==
    CASE op = "makeGraphicsPipelineKey" -> "graphicsStatic"
      [] op = "makeComputePipelineKey" -> "computeStatic"
      [] op = "buildKeyForTexture" -> "textureKey"
      [] op = "getDefaultStorageTextureInfo" -> "storageColorType"

\* A thread makes a call.
BeginCall(t) ==
    /\ tpc[t] = "idle"
    /\ \E c \in ThreadCalls :
          /\ tcall' = [tcall EXCEPT ![t] = c]
          /\ tpc' = [tpc EXCEPT ![t] = FirstStep(c.op)]
    /\ UNCHANGED <<caps, call, result, statics, tlocal, tresult>>

\* The declaration without the guard: every thread that reaches it runs the
\* initializer.
GraphicsStaticReachedUnguarded(t) ==
    /\ tpc[t] = "graphicsStatic"
    /\ kGraphicsPipelineDomain' = [kGraphicsPipelineDomain EXCEPT !.guard = "busy"]
    /\ tpc' = [tpc EXCEPT ![t] = "graphicsInit"]
    /\ UNCHANGED <<caps, call, result, kComputePipelineDomain, kNum32DataCnt, nextDomain,
                   tcall, tlocal, tresult>>

\* makeGraphicsPipelineKey reaches the declaration of kGraphicsPipelineDomain:
\* it goes on when the static is initialized, takes the initialization on
\* itself when nobody has, and waits while another thread is at it.
GraphicsStaticReached(t) ==
    /\ tpc[t] = "graphicsStatic"
    /\ \/ /\ kGraphicsPipelineDomain.guard = "done"
          /\ tpc' = [tpc EXCEPT ![t] = "graphicsBuild"]
          /\ UNCHANGED kGraphicsPipelineDomain
       \/ /\ kGraphicsPipelineDomain.guard = "uninit"
          /\ kGraphicsPipelineDomain' = [kGraphicsPipelineDomain EXCEPT !.guard = "busy"]
          /\ tpc' = [tpc EXCEPT ![t] = "graphicsInit"]
    /\ UNCHANGED <<caps, call, result, kComputePipelineDomain, kNum32DataCnt, nextDomain,
                   tcall, tlocal, tresult>>

\* kGraphicsPipelineDomain = UniqueKey::GenerateDomain()
GraphicsStaticInit(t) ==
    /\ tpc[t] = "graphicsInit"
    /\ nextDomain <= MaxDomains
    /\ kGraphicsPipelineDomain' = [guard |-> "done", value |-> nextDomain]
    /\ nextDomain' = nextDomain + 1
    /\ tpc' = [tpc EXCEPT ![t] = "graphicsBuild"]
    /\ UNCHANGED <<caps, call, result, kComputePipelineDomain, kNum32DataCnt,
                   tcall, tlocal, tresult>>

\* The key of makeGraphicsPipelineKey under a given domain.
GraphicsPipelineKey(c, domain) ==
    LET renderPassKey == getRenderPassDescKeyForPipeline(c.renderPassDesc)
    IN  IF renderPassKey.aborted THEN Aborts
        ELSE Returns([domain |-> domain,
                      data |-> GraphicsPipelineKeyData(c.pipelineDesc, renderPassKey.value,
                                                       c.writeSwizzle)])

\* The builder of makeGraphicsPipelineKey: the domain read from the static,
\* and the five words.
GraphicsBuild(t) ==
    /\ tpc[t] = "graphicsBuild"
    /\ tresult' = [tresult EXCEPT
                      ![t] = GraphicsPipelineKey(tcall[t], kGraphicsPipelineDomain.value)]
    /\ tpc' = [tpc EXCEPT ![t] = "done"]
    /\ UNCHANGED <<caps, call, result, statics, tcall, tlocal>>

\* makeComputePipelineKey reaches the declaration of kComputePipelineDomain.
ComputeStaticReached(t) ==
    /\ tpc[t] = "computeStatic"
    /\ \/ /\ kComputePipelineDomain.guard = "done"
          /\ tpc' = [tpc EXCEPT ![t] = "computeBuild"]
          /\ UNCHANGED kComputePipelineDomain
       \/ /\ kComputePipelineDomain.guard = "uninit"
          /\ kComputePipelineDomain' = [kComputePipelineDomain EXCEPT !.guard = "busy"]
          /\ tpc' = [tpc EXCEPT ![t] = "computeInit"]
    /\ UNCHANGED <<caps, call, result, kGraphicsPipelineDomain, kNum32DataCnt, nextDomain,
                   tcall, tlocal, tresult>>

\* kComputePipelineDomain = UniqueKey::GenerateDomain()
ComputeStaticInit(t) ==
    /\ tpc[t] = "computeInit"
    /\ nextDomain <= MaxDomains
    /\ kComputePipelineDomain' = [guard |-> "done", value |-> nextDomain]
    /\ nextDomain' = nextDomain + 1
    /\ tpc' = [tpc EXCEPT ![t] = "computeBuild"]
    /\ UNCHANGED <<caps, call, result, kGraphicsPipelineDomain, kNum32DataCnt,
                   tcall, tlocal, tresult>>

\* The key of makeComputePipelineKey under a given domain.
ComputePipelineKey(c, domain) ==
    Returns([domain |-> domain, data |-> ComputePipelineKeyData(c.computeStepID)])

\* The builder of makeComputePipelineKey.
ComputeBuild(t) ==
    /\ tpc[t] = "computeBuild"
    /\ tresult' = [tresult EXCEPT
                      ![t] = ComputePipelineKey(tcall[t], kComputePipelineDomain.value)]
    /\ tpc' = [tpc EXCEPT ![t] = "done"]
    /\ UNCHANGED <<caps, call, result, statics, tcall, tlocal>>

\* buildKeyForTexture on a thread; it reads the static kNum32DataCnt and
\* writes the caller's key.
TextureKeyBuild(t) ==
    /\ tpc[t] = "textureKey"
    /\ tresult' = [tresult EXCEPT
                      ![t] = buildKeyForTexture(tcall[t].texture, tcall[t].type,
                                                tcall[t].shareable, kNum32DataCnt)]
    /\ tpc' = [tpc EXCEPT ![t] = "done"]
    /\ UNCHANGED <<caps, call, result, statics, tcall, tlocal>>

\* getDefaultStorageTextureInfo on a thread: the read of the color type table,
StorageColorTypeRead(t) ==
    /\ tpc[t] = "storageColorType"
    /\ tlocal' = [tlocal EXCEPT ![t] = [format |-> getFormatFromColorType(tcall[t].colorType)]]
    /\ tpc' = [tpc EXCEPT ![t] = "storageFormat"]
    /\ UNCHANGED <<caps, call, result, statics, tcall, tresult>>

\* and then the read of the format table.
StorageFormatRead(t) ==
    /\ tpc[t] = "storageFormat"
    /\ tresult' = [tresult EXCEPT ![t] = StorageTextureInfoOfFormat(tlocal[t].format)]
    /\ tpc' = [tpc EXCEPT ![t] = "done"]
    /\ UNCHANGED <<caps, call, result, statics, tcall, tlocal>>

\* The thread's caller takes the result.
ThreadReturn(t) ==
    /\ tpc[t] = "done"
    /\ tpc' = [tpc EXCEPT ![t] = "idle"]
    /\ tcall' = [tcall EXCEPT ![t] = NoCall]
    /\ tlocal' = [tlocal EXCEPT ![t] = NoResult]
    /\ tresult' = [tresult EXCEPT ![t] = NoResult]
    /\ UNCHANGED <<caps, call, result, statics>>

NextThreads ==
    \E t \in Threads :
        \/ BeginCall(t)
        \/ GraphicsStaticReached(t)
        \/ GraphicsStaticInit(t)
        \/ GraphicsBuild(t)
        \/ ComputeStaticReached(t)
        \/ ComputeStaticInit(t)
        \/ ComputeBuild(t)
        \/ TextureKeyBuild(t)
        \/ StorageColorTypeRead(t)
        \/ StorageFormatRead(t)
        \/ ThreadReturn(t)

SpecThreads == Init /\ [][NextThreads]_vars

(***************************************************************************)
(* Properties.                                                             *)
(***************************************************************************)
\* The format table entry of a format, read without the scan.
EntryOf(format) ==
    LET listed == { i \in DOMAIN kFormats : kFormats[i] = format }
    IN  IF listed = {} THEN fFormatTable[CHOOSE i \in DOMAIN kFormats : kFormats[i] = "Undefined"]
        ELSE fFormatTable[CHOOSE i \in listed : TRUE]

Listed(format) == \E i \in DOMAIN kFormats : kFormats[i] = format

\* The color types a format table entry lists.
ColorTypesOf(info) ==
    { info.fColorTypeInfos[i].fColorType : i \in 1..Len(info.fColorTypeInfos) }

\* C1: no query changes the format table, the color type table, the limits
\* or the feature flags, and a query made again with the same arguments
\* returns what it returned before.
C1_QueriesLeaveCapsAlone ==
    [][ /\ fFormatTable' = fFormatTable
        /\ fColorTypeToFormatTable' = fColorTypeToFormatTable
        /\ fMaxTextureSize' = fMaxTextureSize
        /\ fDefaultMSAASamples' = fDefaultMSAASamples
        /\ fSupportedTransientAttachmentUsage' = fSupportedTransientAttachmentUsage
        /\ fSupportedResolveTextureLoadOp' = fSupportedResolveTextureLoadOp
        /\ features' = features
        /\ (call.op = call'.op /\ call = call') => result' = result ]_vars

C1_Witness ==
    /\ call.op = "getDefaultStorageTextureInfo"
    /\ call.colorType = "kA16_unorm"
    /\ fColorTypeToFormatTable["kA16_unorm"] = "R16Unorm"
    /\ result = Returns(NullTextureInfo)

\* C3: getDefaultSampledTextureInfo returns an invalid TextureInfo exactly
\* when the color type maps to Undefined, and otherwise a single-sampled
\* descriptor of the mapped format with the requested mip setting and usage
\* TextureBinding|CopyDst|CopySrc, plus RenderAttachment exactly when asked
\* for a renderable texture.
C3_SampledTextureInfo ==
    call.op = "getDefaultSampledTextureInfo" =>
        LET format == fColorTypeToFormatTable[call.colorType]
        IN  /\ ~result.aborted
            /\ ~result.value.valid <=> format = "Undefined"
            /\ ~result.value.valid => result.value = NullTextureInfo
            /\ result.value.valid =>
                  /\ result.value.fSampleCount = 1
                  /\ result.value.fMipmapped = call.mipmapped
                  /\ result.value.fFormat = format
                  /\ result.value.fViewFormat = format
                  /\ {"TextureBinding", "CopyDst", "CopySrc"} \subseteq result.value.fUsage
                  /\ result.value.fUsage \subseteq
                        {"TextureBinding", "CopyDst", "CopySrc", "RenderAttachment"}
                  /\ "RenderAttachment" \in result.value.fUsage <=> call.renderable

C3_Witness ==
    /\ call.op = "getDefaultSampledTextureInfo"
    /\ call.colorType = "kBGRA_8888"
    /\ call.mipmapped
    /\ ~call.renderable
    /\ result.value.valid
    /\ result.value.fFormat = "BGRA8Unorm"
    /\ "RenderAttachment" \notin result.value.fUsage

\* The sentinels of C4 for the factories and for supportedReadPixelsColorType.
C4_FactorySentinels ==
    /\ (/\ call.op \in {"getDefaultSampledTextureInfo", "getDefaultStorageTextureInfo"}
        /\ fColorTypeToFormatTable[call.colorType] = "Undefined")
          => result = Returns(NullTextureInfo)
    /\ (/\ call.op = "supportedReadPixelsColorType"
        /\ fColorTypeToFormatTable[call.srcColorType] = "Undefined")
          => (~result.aborted /\ result.value[1] = "kUnknown")
    /\ (/\ call.op = "getDefaultCompressedTextureInfo"
        /\ call.compression \notin {"kETC2_RGB8_UNORM", "kBC1_RGBA8_UNORM"})
          => result = Returns(NullTextureInfo)

\* The texture of a getColorTypeInfo call has no entry for the color type.
C4_NoEntry ==
    /\ call.op = "getColorTypeInfo"
    /\ call.colorType \notin ColorTypesOf(EntryOf(getViewFormat(call.info)))

\* C4 as claimed: an unsupported request gets a sentinel and never a
\* failure; in particular getColorTypeInfo returns null whenever the format
\* of the texture has no entry for the color type.
C4_Claimed ==
    /\ C4_FactorySentinels
    /\ C4_NoEntry => result = Returns(nullptr)

\* C4: an unsupported request to the factories or to
\* supportedReadPixelsColorType gets the sentinel.  getColorTypeInfo returns
\* null when the view format of the texture has no entry for the color type,
\* save that a debug build aborts on its assertion when the view format is
\* Undefined or is not one of kFormats.
C4_Sentinels ==
    /\ C4_FactorySentinels
    /\ C4_NoEntry =>
          IF debugBuild /\ (getViewFormat(call.info) = "Undefined"
                               \/ ~Listed(getViewFormat(call.info)))
          THEN result.aborted
          ELSE result = Returns(nullptr)

C4_Witness ==
    /\ call.op = "getColorTypeInfo"
    /\ call.colorType = "kGray_8"
    /\ getViewFormat(call.info) = "BGRA8Unorm"
    /\ debugBuild
    /\ result = Returns(nullptr)

\* kFormats lists no format twice and ends with Undefined.
C5_ListWellFormed ==
    /\ \A i, j \in DOMAIN kFormats : kFormats[i] = kFormats[j] => i = j
    /\ kFormats[kFormatCnt - 1] = "Undefined"

\* C5 as claimed: for every format the scan returns an index within the
\* array, that of the format when it is listed and that of the Undefined
\* entry, which has no flags and no color types, when it is not.
C5_Claimed ==
    /\ C5_ListWellFormed
    /\ call.op = "GetFormatIndex" =>
          /\ ~result.aborted
          /\ result.value \in 0..(kFormatCnt - 1)
          /\ Listed(call.format) => kFormats[result.value] = call.format
          /\ ~Listed(call.format) =>
                /\ kFormats[result.value] = "Undefined"
                /\ fFormatTable[result.value] = [fFlags |-> {}, fColorTypeInfos |-> << >>]

\* C5: kFormats lists no format twice and ends with Undefined; the scan never
\* reads past the end of the array; for a listed format it returns the index
\* of the format; for a format that is not listed it stops at the Undefined
\* entry, which has no flags and no color types, and returns its index in a
\* release build, while a debug build aborts there in SkDEBUGFAILF.
C5_ScanStopsAtSentinel ==
    /\ C5_ListWellFormed
    /\ call.op = "GetFormatIndex" =>
          /\ GetFormatIndex(call.format).outcome # "unreachable"
          /\ GetFormatIndex(call.format).index \in 0..(kFormatCnt - 1)
          /\ Listed(call.format) =>
                (~result.aborted /\ kFormats[result.value] = call.format)
          /\ ~Listed(call.format) =>
                /\ kFormats[GetFormatIndex(call.format).index] = "Undefined"
                /\ fFormatTable[GetFormatIndex(call.format).index]
                      = [fFlags |-> {}, fColorTypeInfos |-> << >>]
                /\ IF debugBuild THEN result.aborted
                   ELSE result = Returns(kFormatCnt - 1)

C5_Witness ==
    /\ call.op = "GetFormatIndex"
    /\ call.format = "RGBA8Snorm"
    /\ ~debugBuild
    /\ result = Returns(17)

\* What a thread's call returns when no other thread runs.
ResultAlone(c) ==
    CASE c.op = "makeGraphicsPipelineKey" ->
            GraphicsPipelineKey(c, kGraphicsPipelineDomain.value)
      [] c.op = "makeComputePipelineKey" ->
            ComputePipelineKey(c, kComputePipelineDomain.value)
      [] c.op = "buildKeyForTexture" ->
            buildKeyForTexture(c.texture, c.type, c.shareable, 4)
      [] c.op = "getDefaultStorageTextureInfo" ->
            getDefaultStorageTextureInfo(c.colorType)

\* A step leaves a static alone, or is the one initialization of it.
WrittenOnce(static, staticNext) ==
    \/ staticNext = static
    \/ static.guard = "uninit" /\ staticNext.guard = "busy"
    \/ static.guard = "busy" /\ staticNext.guard = "done"

\* C2: with the calls of several threads interleaved, every call returns
\* what it returns alone, no step of a call writes the tables, limits or
\* flags of the object, and the statics are initialized once and only read
\* from then on.
C2_ThreadsOnlyRead ==
    /\ [](\A t \in Threads : tpc[t] = "done" => tresult[t] = ResultAlone(tcall[t]))
    /\ [][ /\ caps' = caps
           /\ kNum32DataCnt' = kNum32DataCnt
           /\ WrittenOnce(kGraphicsPipelineDomain, kGraphicsPipelineDomain')
           /\ WrittenOnce(kComputePipelineDomain, kComputePipelineDomain') ]_vars

C2_Witness ==
    \E t, u \in Threads :
        /\ t # u
        /\ tpc[t] = "done"
        /\ tcall[t].op = "makeGraphicsPipelineKey"
        /\ ~tresult[t].aborted
        /\ tpc[u] = "graphicsBuild"
        /\ kGraphicsPipelineDomain.guard = "done"
        /\ kComputePipelineDomain.guard = "done"

\* a >> n of a uint32_t, 0 < n < 16.
Shr32(a, n) ==
    << (a[1] \div Pow2(n)) + (a[2] % Pow2(n)) * Pow2(16 - n), a[2] \div Pow2(n) >>

C7_RenderPassKeyDecodes ==
    (/\ call.op = "getRenderPassDescKeyForPipeline"
     /\ RenderPassKeyAsserted(call.renderPassDesc)) =>
        /\ ~result.aborted
        /\ << result.value[4], 0 >> = call.renderPassDesc.colorViewFormat
        /\ << result.value[3] \div 2, 0 >> = call.renderPassDesc.colorSampleCount
        /\ result.value[3] % 2 = loadResolveAttachmentKey(call.renderPassDesc)
        /\ << result.value[2], 0 >> = call.renderPassDesc.dsViewFormat
        /\ << result.value[1], 0 >> = call.renderPassDesc.dsSampleCount

\* C8: getDefaultStorageTextureInfo returns a descriptor exactly for the
\* color types mapped to a format with the storage flag; the descriptor is
\* single-sampled, without mipmaps, of the mapped format, of usage
\* StorageBinding|TextureBinding|CopySrc, and isStorage and onIsTexturable
\* accept it.
C8_StorageTextureInfo ==
    call.op = "getDefaultStorageTextureInfo" =>
        LET format == fColorTypeToFormatTable[call.colorType]
        IN  /\ ~result.aborted
            /\ result.value.valid <=>
                  (format # "Undefined" /\ "Storage" \in EntryOf(format).fFlags)
            /\ result.value.valid =>
                  /\ result.value.fSampleCount = 1
                  /\ ~result.value.fMipmapped
                  /\ result.value.fFormat = format
                  /\ result.value.fViewFormat = format
                  /\ result.value.fUsage = {"StorageBinding", "TextureBinding", "CopySrc"}
                  /\ isStorage(result.value) = Returns(TRUE)
                  /\ onIsTexturable(result.value) = Returns(TRUE)

C8_Witness ==
    /\ call.op = "getDefaultStorageTextureInfo"
    /\ call.colorType = "kGray_8"
    /\ "R8UnormStorage" \in features
    /\ result.value.valid
    /\ result.value.fFormat = "R8Unorm"

\* C9: a descriptor from getDefaultSampledTextureInfo is texturable, and
\* renderable when it was asked to be, by the tables of the same object.
C9_SampledTextureInfoSupported ==
    (call.op = "getDefaultSampledTextureInfo" /\ result.value.valid) =>
        /\ onIsTexturable(result.value) = Returns(TRUE)
        /\ "Texturable" \in EntryOf(result.value.fViewFormat).fFlags
        /\ call.renderable =>
              /\ isRenderable(result.value) = Returns(TRUE)
              /\ "Renderable" \in EntryOf(result.value.fViewFormat).fFlags

C9_Witness ==
    /\ call.op = "getDefaultSampledTextureInfo"
    /\ call.colorType = "kA16_unorm"
    /\ call.renderable
    /\ result.value.valid
    /\ result.value.fFormat = "R16Unorm"

\* The flags of the entry for a color type under the format it is mapped to.
C10_ColorTypeFlags(colorType) ==
    LET info == EntryOf(fColorTypeToFormatTable[colorType])
    IN  UNION { info.fColorTypeInfos[i].fFlags :
                  i \in { j \in 1..Len(info.fColorTypeInfos) :
                            info.fColorTypeInfos[j].fColorType = colorType } }

C11_CompressedTextureInfoSupported ==
    (call.op = "getDefaultCompressedTextureInfo" /\ ~result.aborted /\ result.value.valid) =>
        /\ result.value.fFormat \in {"ETC2RGB8Unorm", "BC1RGBAUnorm"}
        /\ "Texturable" \in EntryOf(result.value.fFormat).fFlags
        /\ onIsTexturable(result.value) = Returns(TRUE)

\* The formats initFormatTable passes to setColorType for a color type, in
\* the order it passes them; none for a color type it does not mention.
C12_FormatsOf(colorType) ==
    CASE colorType = "kAlpha_8"      -> << "R8Unorm" >>
      [] colorType = "kRGBA_8888"    -> << "RGBA8Unorm" >>
      [] colorType = "kRGB_888x"     -> << "RGBA8Unorm", "BGRA8Unorm" >>
      [] colorType = "kBGRA_8888"    -> << "BGRA8Unorm" >>
      [] colorType = "kGray_8"       -> << "R8Unorm" >>
      [] colorType = "kR8_unorm"     -> << "R8Unorm" >>
      [] colorType = "kRGBA_F16"     -> << "RGBA16Float" >>
      [] colorType = "kA16_float"    -> << "R16Float" >>
      [] colorType = "kR8G8_unorm"   -> << "RG8Unorm" >>
      [] colorType = "kRGBA_1010102" -> << "RGB10A2Unorm" >>
      [] colorType = "kR16G16_float" -> << "RG16Float" >>
      [] colorType = "kA16_unorm"    -> << "R16Unorm" >>
      [] colorType = "kR16G16_unorm" -> << "RG16Unorm" >>
      [] OTHER                       -> << >>

\* The first format of a list whose entry lists the color type, or Undefined.
C12_FirstWithEntry(colorType, formats) ==
    LET having == { k \in 1..Len(formats) : colorType \in ColorTypesOf(EntryOf(formats[k])) }
    IN  IF having = {} THEN "Undefined"
        ELSE formats[CHOOSE k \in having : \A j \in having : k <= j]

\* Lists of formats setColorType is tried on besides those of initFormatTable.
C12_FormatLists ==
    LET fs == {"RGBA8Unorm", "BGRA8Unorm", "R16Unorm", "ETC2RGB8Unorm"}
    IN  { << >> } \cup { << f >> : f \in fs } \cup { << f, g >> : f, g \in fs }

\* C12: setColorType maps a color type to the first format of its list, in
\* list order, whose entry lists the color type, and leaves the mapping as it
\* was when no listed format does; the table starts as Undefined everywhere,
\* so after construction a color type without such a format is mapped to
\* Undefined.  kRGB_888x is mapped to RGBA8Unorm, and kA16_unorm and
\* kR16G16_unorm to Undefined on a device without Unorm16TextureFormats.
C12_FirstListedFormat ==
    /\ \A c \in ColorTypes :
          fColorTypeToFormatTable[c] = C12_FirstWithEntry(c, C12_FormatsOf(c))
    /\ fColorTypeToFormatTable["kRGB_888x"] = "RGBA8Unorm"
    /\ "Unorm16TextureFormats" \notin features =>
          /\ fColorTypeToFormatTable["kA16_unorm"] = "Undefined"
          /\ fColorTypeToFormatTable["kR16G16_unorm"] = "Undefined"
    /\ call = NoCall =>
          \A c \in {"kRGB_888x", "kA16_unorm"}, fs \in C12_FormatLists :
              LET reset == [x \in ColorTypes |-> "Undefined"]
                  set   == setColorType(fFormatTable, reset, c, fs)
              IN  /\ set[c] = C12_FirstWithEntry(c, fs)
                  /\ \A x \in ColorTypes \ {c} : set[x] = "Undefined"

C12_Witness ==
    /\ "Unorm16TextureFormats" \notin features
    /\ "TextureCompressionETC2" \in features
    /\ fColorTypeToFormatTable["kRGB_888x"] = "RGBA8Unorm"
    /\ "kRGB_888x" \in ColorTypesOf(EntryOf("BGRA8Unorm"))
    /\ fColorTypeToFormatTable["kA16_unorm"] = "Undefined"
    /\ fColorTypeToFormatTable["kBGRA_8888"] = "BGRA8Unorm"
    /\ call.op = "getDefaultSampledTextureInfo"
    /\ call.colorType = "kRGB_888x"
    /\ result.value.valid
    /\ result.value.fFormat = "RGBA8Unorm"

\* C13: the two tables agree.  A color type mapped to a format other than
\* Undefined is listed by the entry of that format, which is texturable;
\* getColorTypeInfo of the color type and a texture of that view format
\* returns the entry; supportedReadPixelsColorType returns the color type
\* when it is mapped to a format and kUnknown when it is mapped to Undefined,
\* whatever the texture info and the destination color type.
C13_TablesAgree ==
    /\ \A c \in ColorTypes :
          LET f == fColorTypeToFormatTable[c]
          IN  f # "Undefined" =>
                /\ Listed(f)
                /\ "Texturable" \in EntryOf(f).fFlags
                /\ c \in ColorTypesOf(EntryOf(f))
    /\ (/\ call.op = "getColorTypeInfo"
        /\ getViewFormat(call.info) # "Undefined"
        /\ getViewFormat(call.info) = fColorTypeToFormatTable[call.colorType]) =>
          /\ ~result.aborted
          /\ result.value # nullptr
          /\ result.value.fColorType = call.colorType
    /\ call.op = "supportedReadPixelsColorType" =>
          result = Returns(<< IF fColorTypeToFormatTable[call.srcColorType] = "Undefined"
                              THEN "kUnknown" ELSE call.srcColorType,
                              FALSE >>)

C13_Witness ==
    /\ call.op = "supportedReadPixelsColorType"
    /\ call.srcColorType = "kAlpha_8"
    /\ call.dstColorType = "kRGBA_8888"
    /\ getViewFormat(call.info) = "BGRA8Unorm"
    /\ fColorTypeToFormatTable["kAlpha_8"] = "R8Unorm"
    /\ result = Returns(<< "kAlpha_8", FALSE >>)

\* The formats whose block of initFormatTable fills nothing in on this device.
C14_Unpopulated ==
    (IF "Unorm16TextureFormats" \in features THEN {} ELSE {"R16Unorm", "RG16Unorm"})
        \cup (IF "TextureCompressionETC2" \in features THEN {} ELSE {"ETC2RGB8Unorm"})
        \cup (IF "TextureCompressionBC" \in features THEN {} ELSE {"BC1RGBAUnorm"})

\* C14: the format table follows the features of the device.  R8Unorm has
\* the storage flag exactly with R8UnormStorage; R16Unorm and RG16Unorm have
\* flags or color types only with Unorm16TextureFormats, and R16Unorm never
\* the storage flag; ETC2RGB8Unorm and BC1RGBAUnorm are texturable exactly
\* with their compression feature and never renderable or storage; a format
\* left unpopulated has no flags and no color types, and is reported neither
\* texturable, nor renderable at a sample count of 1 or more, nor storage.
C14_TableFollowsFeatures ==
    /\ "Storage" \in EntryOf("R8Unorm").fFlags <=> "R8UnormStorage" \in features
    /\ \A f \in {"R16Unorm", "RG16Unorm"} :
          (EntryOf(f).fFlags # {} \/ Len(EntryOf(f).fColorTypeInfos) > 0)
             => "Unorm16TextureFormats" \in features
    /\ "Storage" \notin EntryOf("R16Unorm").fFlags
    /\ "Texturable" \in EntryOf("ETC2RGB8Unorm").fFlags
          <=> "TextureCompressionETC2" \in features
    /\ "Texturable" \in EntryOf("BC1RGBAUnorm").fFlags
          <=> "TextureCompressionBC" \in features
    /\ \A f \in {"ETC2RGB8Unorm", "BC1RGBAUnorm"} :
          EntryOf(f).fFlags \cap {"Renderable", "Storage"} = {}
    /\ \A f \in C14_Unpopulated :
          EntryOf(f) = [fFlags |-> {}, fColorTypeInfos |-> << >>]
    /\ (call.op = "isTexturable" /\ call.format \in C14_Unpopulated)
          => result = Returns(FALSE)
    /\ (call.op = "maxRenderTargetSampleCount" /\ call.format \in C14_Unpopulated)
          => result = Returns(0)
    /\ (call.op = "isRenderableFormat" /\ call.format \in C14_Unpopulated
           /\ call.sampleCount >= 1)
          => result = Returns(FALSE)
    /\ (call.op = "isStorage" /\ call.info.valid
           /\ getViewFormat(call.info) \in C14_Unpopulated)
          => result = Returns(FALSE)

C14_Witness ==
    /\ features = {"R8UnormStorage", "TextureCompressionBC"}
    /\ "Storage" \in EntryOf("R8Unorm").fFlags
    /\ EntryOf("BC1RGBAUnorm").fFlags = {"Texturable"}
    /\ call.op = "isRenderableFormat"
    /\ call.format = "RG16Unorm"
    /\ call.sampleCount = 1
    /\ result = Returns(FALSE)

\* C15: maxRenderTargetSampleCount of a format of kFormats is 0 without the renderable
\* flag, 8 with the renderable and the MSAA flag and 1 with the renderable
\* flag alone; isRenderable of a format and a sample count holds exactly when
\* the count is at most that maximum, so never for a count of 1 or more and
\* a format without the renderable flag; isRenderable of a texture info
\* holds exactly when the info is valid, has RenderAttachment usage and its
\* view format and sample count are renderable.
C15_RenderTargetSampleCount ==
    /\ \A flags \in SUBSET kAllFlags :
          SampleCountOfFormatInfo([fFlags |-> flags, fColorTypeInfos |-> << >>]) =
             (IF "Renderable" \notin flags THEN 0 ELSE IF "MSAA" \in flags THEN 8 ELSE 1)
    /\ (call.op = "maxRenderTargetSampleCount" /\ Listed(call.format)) =>
          LET flags == EntryOf(call.format).fFlags
          IN  result = Returns(IF "Renderable" \notin flags THEN 0
                               ELSE IF "MSAA" \in flags THEN 8 ELSE 1)
    /\ (call.op = "isRenderableFormat" /\ Listed(call.format)) =>
          /\ ~result.aborted
          /\ result.value <=>
                call.sampleCount <= maxRenderTargetSampleCount(call.format).value
          /\ ("Renderable" \notin EntryOf(call.format).fFlags /\ call.sampleCount >= 1)
                => ~result.value
    /\ (call.op = "isRenderable"
           /\ (call.info.valid => Listed(getViewFormat(call.info)))) =>
          /\ ~result.aborted
          /\ result.value <=>
                /\ call.info.valid
                /\ "RenderAttachment" \in call.info.fUsage
                /\ LET flags == EntryOf(getViewFormat(call.info)).fFlags
                   IN  /\ "Renderable" \in flags
                       /\ call.info.fSampleCount <= (IF "MSAA" \in flags THEN 8 ELSE 1)

C15_Witness ==
    /\ call.op = "isRenderable"
    /\ call.info.valid
    /\ call.info.fFormat = "R16Unorm"
    /\ call.info.fSampleCount = 4
    /\ "RenderAttachment" \in call.info.fUsage
    /\ "Unorm16TextureFormats" \in features
    /\ result = Returns(TRUE)

\* C16: a descriptor from getDefaultDepthStencilTextureInfo for Stencil8,
\* Depth16Unorm, Depth32Float or Depth24PlusStencil8 and a sample count of
\* 1, 2, 4 or 8 is renderable by the tables of the same object; it has the
\* requested sample count, no mipmaps, the format as its view format, and
\* usage RenderAttachment, with the transient-attachment usage exactly when
\* the device supports transient attachments.
C16_DepthStencilTextureInfoRenderable ==
    (/\ call.op = "getDefaultDepthStencilTextureInfo"
     /\ call.format \in {"Stencil8", "Depth16Unorm", "Depth32Float", "Depth24PlusStencil8"}
     /\ call.sampleCount \in {1, 2, 4, 8}) =>
        /\ ~result.aborted
        /\ result.value.valid
        /\ result.value.fSampleCount = call.sampleCount
        /\ ~result.value.fMipmapped
        /\ result.value.fFormat = call.format
        /\ result.value.fViewFormat = call.format
        /\ result.value.fUsage =
              {"RenderAttachment"} \cup
                 (IF "TransientAttachments" \in features THEN {"TransientAttachment"} ELSE {})
        /\ isRenderable(result.value) = Returns(TRUE)

\* C17: bit 0 of the color attachment half of the render-pass key is 1
\* exactly when the device supports the ExpandResolveTexture load op, the
\* render pass has a valid color resolve attachment and that attachment is
\* loaded.  On a device with the support a render pass that loads its resolve
\* attachment and the same render pass that does not get different keys; on
\* a device without it the bit is 0 and the two get the same key.
C17_LoadResolveBit ==
    (call.op = "getRenderPassDescKeyForPipeline" /\ ~result.aborted) =>
        LET rp        == call.renderPassDesc
            supported == "DawnLoadResolveTexture" \in features
            other     == [rp EXCEPT !.resolveLoadOp =
                                       IF rp.resolveLoadOp = "kLoad" THEN "kClear" ELSE "kLoad"]
        IN  /\ (result.value[3] % 2 = 1) <=>
                  (supported /\ rp.resolveValid /\ rp.resolveLoadOp = "kLoad")
            /\ ~supported => result.value[3] % 2 = 0
            /\ rp.resolveValid =>
                  /\ ~getRenderPassDescKeyForPipeline(other).aborted
                  /\ (getRenderPassDescKeyForPipeline(other).value # result.value)
                        <=> supported

C17_Witness ==
    /\ call.op = "getRenderPassDescKeyForPipeline"
    /\ "DawnLoadResolveTexture" \in features
    /\ call.renderPassDesc.resolveValid
    /\ call.renderPassDesc.resolveLoadOp = "kLoad"
    /\ call.renderPassDesc.colorSampleCount = U32(4)
    /\ ~result.aborted
    /\ result.value[3] = 9

\* The view format a plane of a multiplanar format must be viewed as, or
\* "any" where none is required.
C18_RequiredViewFormat(format, aspect) ==
    CASE format = "R8BG8Biplanar420Unorm" /\ aspect = "Plane0Only" -> "R8Unorm"
      [] format = "R8BG8Biplanar420Unorm" /\ aspect = "Plane1Only" -> "RG8Unorm"
      [] format = "R10X6BG10X6Biplanar420Unorm" /\ aspect = "Plane0Only" -> "R16Unorm"
      [] format = "R10X6BG10X6Biplanar420Unorm" /\ aspect = "Plane1Only" -> "RG16Unorm"
      [] format = "R8BG8A8Triplanar420Unorm" /\ aspect = "Plane0Only" -> "R8Unorm"
      [] format = "R8BG8A8Triplanar420Unorm" /\ aspect = "Plane1Only" -> "RG8Unorm"
      [] format = "R8BG8A8Triplanar420Unorm" /\ aspect = "Plane2Only" -> "R8Unorm"
      [] OTHER -> "any"

\* C18: onIsTexturable returns true exactly when the info is valid, its
\* usage includes TextureBinding, the format table marks its view format
\* texturable and, for a plane of a multiplanar format, the view format is
\* the one the plane requires: R8Unorm and RG8Unorm for planes 0 and 1 of
\* R8BG8Biplanar420Unorm, R16Unorm and RG16Unorm for planes 0 and 1 of
\* R10X6BG10X6Biplanar420Unorm, and R8Unorm, RG8Unorm and R8Unorm for planes
\* 0, 1 and 2 of R8BG8A8Triplanar420Unorm.
C18_Texturable ==
    call.op = "onIsTexturable" =>
        LET info     == call.info
            required == C18_RequiredViewFormat(info.fFormat, info.fAspect)
            expected == /\ info.valid
                        /\ "TextureBinding" \in info.fUsage
                        /\ Listed(getViewFormat(info))
                        /\ "Texturable" \in EntryOf(getViewFormat(info)).fFlags
                        /\ required # "any" => getViewFormat(info) = required
        IN  /\ (result = Returns(TRUE)) <=> expected
            /\ (~expected /\ (info.valid => Listed(getViewFormat(info))))
                  => result = Returns(FALSE)

C18_Witness ==
    /\ call.op = "onIsTexturable"
    /\ call.info.fFormat = "R10X6BG10X6Biplanar420Unorm"
    /\ call.info.fAspect = "Plane1Only"
    /\ call.info.fViewFormat = "RG16Unorm"
    /\ "Unorm16TextureFormats" \in features
    /\ result = Returns(TRUE)

\* C19: getDefaultMSAATextureInfo returns an invalid TextureInfo when the
\* default MSAA sample count is at most 1; otherwise a descriptor with the
\* default MSAA sample count, no mipmaps, the base format of the
\* single-sampled texture as format and as view format, and usage
\* RenderAttachment, with the transient-attachment usage exactly when the
\* device supports transient attachments and the texture is discardable.
C19_MSAATextureInfo ==
    call.op = "getDefaultMSAATextureInfo" =>
        /\ ~result.aborted
        /\ fDefaultMSAASamples <= 1 => result.value = NullTextureInfo
        /\ fDefaultMSAASamples > 1 =>
              /\ result.value.valid
              /\ result.value.fSampleCount = fDefaultMSAASamples
              /\ ~result.value.fMipmapped
              /\ result.value.fFormat = call.info.fFormat
              /\ result.value.fViewFormat = call.info.fFormat
              /\ "RenderAttachment" \in result.value.fUsage
              /\ result.value.fUsage \subseteq {"RenderAttachment", "TransientAttachment"}
              /\ "TransientAttachment" \in result.value.fUsage <=>
                    ("TransientAttachments" \in features /\ call.discardable)

C19_Witness ==
    /\ call.op = "getDefaultMSAATextureInfo"
    /\ fDefaultMSAASamples = 4
    /\ call.info.fFormat = "RGBA8Unorm"
    /\ call.info.fViewFormat = "BGRA8Unorm"
    /\ call.discardable
    /\ "TransientAttachments" \in features
    /\ result.value.valid
    /\ result.value.fViewFormat = "RGBA8Unorm"
    /\ result.value.fUsage = {"RenderAttachment", "TransientAttachment"}

\* C20: getTextureInfoForSampledCopy returns an invalid TextureInfo for an
\* input that holds no Dawn texture info; otherwise a copy of the input with
\* sample count 1, the requested mip setting and usage exactly
\* TextureBinding|CopyDst|CopySrc, and with the format, view format and
\* aspect of the input; the copy supports read and write pixels.
C20_SampledCopy ==
    call.op = "getTextureInfoForSampledCopy" =>
        /\ ~result.aborted
        /\ ~call.info.valid => result.value = NullTextureInfo
        /\ call.info.valid =>
              /\ result.value.valid
              /\ result.value.fSampleCount = 1
              /\ result.value.fMipmapped = call.mipmapped
              /\ result.value.fUsage = {"TextureBinding", "CopyDst", "CopySrc"}
              /\ result.value.fFormat = call.info.fFormat
              /\ result.value.fViewFormat = call.info.fViewFormat
              /\ result.value.fAspect = call.info.fAspect
              /\ DOMAIN result.value = DOMAIN call.info
              /\ supportsReadPixels(result.value) = Returns(TRUE)
              /\ supportsWritePixels(result.value) = Returns(TRUE)

C20_Witness ==
    /\ call.op = "getTextureInfoForSampledCopy"
    /\ call.info.valid
    /\ call.info.fSampleCount = 4
    /\ call.info.fUsage = {"RenderAttachment", "TransientAttachment"}
    /\ call.info.fFormat = "Depth16Unorm"
    /\ call.mipmapped
    /\ result.value.fSampleCount = 1
    /\ result.value.fMipmapped
    /\ result.value.fFormat = "Depth16Unorm"
    /\ result.value.fUsage = {"TextureBinding", "CopyDst", "CopySrc"}

====
